---- MODULE Spec2Model ----
(***************************************************************************)
(* Model of the two census-tract scripts:                                  *)
(*   process_opportunity.py  ROI csv -> merge_geo_roi -> opportunity map    *)
(*   process_race_demo.py    PL files -> read_pl_data -> racial maps        *)
(*                                                                         *)
(* Text is a sequence of character codes (ASCII / Unicode code points), so *)
(* that parsing and formatting of numbers are computed, not assumed.       *)
(* A numeric cell is <<n>>; a missing numeric cell (NaN) is <<>>.          *)
(***************************************************************************)
EXTENDS Integers, Sequences, FiniteSets, TLC

VARIABLES
    script,          \* which script runs: "reader", "extract", "opportunity", "race_demo"
    pc,              \* position of the script
    err,             \* the exception that ended the run, or NoError
    file_path,       \* read_pl_file: the path argument
    file_bytes,      \* read_pl_file: the bytes of the file at file_path
    read_result,     \* read_pl_file: what the call returned or raised
    roi_file,        \* data/roi/detroit_roi.csv: header line and data lines (text)
    roi,             \* roi_detroit, the DataFrame read from roi_file
    geo_file,        \* migeo2020.pl: sequence of lines (fields as text)
    part1_file,      \* mi000012020.pl: sequence of lines (fields as text)
    demo_mi,         \* read_pl_data(...) for Michigan
    demo_tx,         \* read_pl_data(...) for Texas
    wayne_tracts,    \* GEOIDs of the Wayne county tracts, in provider order
    travis_tracts,   \* GEOIDs of the Travis county tracts, in provider order
    merged,          \* the merged frame of the latest merge
    fills,           \* fill colour of every drawn row of the latest map
    legend,          \* the Patch list of the latest map
    open_canvases,   \* figures opened by plt.subplots and not yet closed
    unmatched_csv,   \* content of unmatched_tracts.csv, or NoFile
    calls            \* per create_racial_map call that reached its QA step: merged

vars == <<script, pc, err, file_path, file_bytes, read_result, roi_file, roi,
          geo_file, part1_file, demo_mi, demo_tx, wayne_tracts, travis_tracts,
          merged, fills, legend, open_canvases, unmatched_csv, calls>>

----------------------------------------------------------------------------
(* Bounds of the model *)

MaxFileLen == 3     \* bytes of a file given to the decoding part of read_pl_file
MaxLines == 3       \* lines of a PL file (the first line included)
MaxRoiRows == 2     \* data lines of the ROI csv

----------------------------------------------------------------------------
(* Values *)

NaN == <<>>                 \* missing numeric cell
MissingText == <<-1>>       \* missing cell of a text column (no text has this form)
NaNLabel == "<NaN>"         \* missing cell of the dominant_race column
NoError == "none"
NoFile == "no file"
None == "None"

Txt0 == <<48>>
Txt1 == <<49>>
Txt2 == <<50>>
Txt3 == <<51>>
Txt4 == <<52>>
TxtX == <<120>>
TxtEmpty == <<>>
Txt01 == <<48, 49>>
Txt10 == <<49, 48>>
Txt11 == <<49, 49>>
TxtX1 == <<120, 49>>

Digit(c) == c \in 48..57

IsIntText(s) == Len(s) > 0 /\ \A i \in 1..Len(s) : Digit(s[i])

RECURSIVE ParseInt(_)
ParseInt(s) ==
    IF Len(s) = 0 THEN 0
    ELSE 10 * ParseInt(SubSeq(s, 1, Len(s) - 1)) + (s[Len(s)] - 48)

RECURSIVE FormatInt(_)
FormatInt(n) ==
    IF n < 10 THEN <<48 + n>>
    ELSE FormatInt(n \div 10) \o <<48 + (n % 10)>>

----------------------------------------------------------------------------
(* read_pl_file, decoding: the encoding fallback *)

encodings == <<"latin1", "iso-8859-1", "cp1252">>

\* The bytes cp1252 leaves undefined (Python's cp1252 codec raises on them).
Cp1252Undefined == {129, 141, 143, 144, 157}

\* latin1 and iso-8859-1 name the same codec: byte b is code point b, for
\* every b in 0..255. cp1252 differs on 128..159.
CanDecode(encoding, bytes) ==
    IF encoding = "cp1252"
    THEN \A i \in 1..Len(bytes) : bytes[i] \notin Cp1252Undefined
    ELSE TRUE

Cp1252Char(b) ==
    CASE b = 128 -> 8364      \* EURO SIGN
      [] b = 147 -> 8220      \* LEFT DOUBLE QUOTATION MARK
      [] b = 148 -> 8221
      [] OTHER -> b

Decode(encoding, bytes) ==
    IF encoding = "cp1252"
    THEN [i \in 1..Len(bytes) |-> Cp1252Char(bytes[i])]
    ELSE [i \in 1..Len(bytes) |-> bytes[i]]

\* the same loop over the candidates in another order
RECURSIVE TryEncodingsCp1252First(_, _, _)
TryEncodingsCp1252First(path, bytes, i) ==
    LET order == <<"cp1252", "latin1", "iso-8859-1">> IN
    IF i > Len(order)
    THEN [kind |-> "ValueError", file |-> path, encoding |-> None, text |-> None]
    ELSE IF CanDecode(order[i], bytes)
         THEN [kind |-> "table", file |-> path, encoding |-> order[i],
               text |-> Decode(order[i], bytes)]
         ELSE TryEncodingsCp1252First(path, bytes, i + 1)

\* for encoding in encodings: try: return pd.read_csv(...) except
\* UnicodeDecodeError: continue;  then raise ValueError naming the file.
RECURSIVE TryEncodings(_, _, _)
TryEncodings(path, bytes, i) ==
    IF i > Len(encodings)
    THEN [kind |-> "ValueError", file |-> path, encoding |-> None, text |-> None]
    ELSE IF CanDecode(encodings[i], bytes)
         THEN [kind |-> "table", file |-> path, encoding |-> encodings[i],
               text |-> Decode(encodings[i], bytes)]
         ELSE TryEncodings(path, bytes, i + 1)

read_pl_file(path, bytes) == TryEncodings(path, bytes, 1)

----------------------------------------------------------------------------
(* read_pl_file, parsing: pd.read_csv(delimiter='|', dtype=str) is called  *)
(* without header=None, so the first line of the file becomes the column   *)
(* names and the remaining lines are the rows of the table.                *)

ParsePl(lines) == [columns |-> Head(lines), rows |-> Tail(lines)]

\* pd.to_numeric(column, errors='coerce') on one text cell
to_numeric(s) ==
    IF s = MissingText THEN NaN
    ELSE IF IsIntText(s) THEN <<ParseInt(s)>>
    ELSE NaN

\* Series subtraction: missing if either operand is missing, no clamping
Sub(a, b) == IF a = NaN \/ b = NaN THEN NaN ELSE <<a[1] - b[1]>>

\* .str.strip() on one text cell
RECURSIVE LStrip(_)
LStrip(s) == IF Len(s) > 0 /\ Head(s) = 32 THEN LStrip(Tail(s)) ELSE s

RECURSIVE RStrip(_)
RStrip(s) ==
    IF Len(s) > 0 /\ s[Len(s)] = 32 THEN RStrip(SubSeq(s, 1, Len(s) - 1)) ELSE s

Strip(s) == IF s = MissingText THEN MissingText ELSE RStrip(LStrip(s))

race_cols == <<"white_nh", "black_alone", "aian_alone", "asian_alone",
               "nhpi_alone", "other_alone", "hispanic">>

\* a scan in which a later column replaces the running best also when equal
RECURSIVE ArgMaxLastWins(_, _, _)
ArgMaxLastWins(row, k, best) ==
    IF k > Len(race_cols) THEN best
    ELSE LET v == row[race_cols[k]] IN
         ArgMaxLastWins(row, k + 1,
             IF v = NaN THEN best
             ELSE IF best = 0 THEN k
             ELSE IF v[1] >= row[race_cols[best]][1] THEN k ELSE best)

\* The scan of DataFrame.idxmax(axis=1) over one row (skipna=True): missing
\* cells are skipped and a later column replaces the running best only when
\* strictly greater. best = 0: no non-missing cell seen yet.
RECURSIVE ArgMaxFrom(_, _, _)
ArgMaxFrom(row, k, best) ==
    IF k > Len(race_cols) THEN best
    ELSE LET v == row[race_cols[k]] IN
         ArgMaxFrom(row, k + 1,
             IF v = NaN THEN best
             ELSE IF best = 0 THEN k
             ELSE IF v[1] > row[race_cols[best]][1] THEN k ELSE best)

idxmax_last_wins(row) ==
    LET b == ArgMaxLastWins(row, 1, 0) IN IF b = 0 THEN NaNLabel ELSE race_cols[b]

\* the label idxmax gives one row; an all-missing row has no label
idxmax(row) ==
    LET b == ArgMaxFrom(row, 1, 0) IN IF b = 0 THEN NaNLabel ELSE race_cols[b]

AllNA(row) == \A k \in 1..Len(race_cols) : row[race_cols[k]] = NaN

\* One row of the demographics frame: the counts of row i of part1_df and the
\* identifiers of row i of geo_df (column assignment aligns on the RangeIndex:
\* a part1 row beyond the end of geo_df gets missing identifiers, geo rows
\* beyond the end of part1_df are dropped).
Counts(p1_row, geo_rows, i) ==
    [total_pop    |-> to_numeric(p1_row.c6),
     white_alone  |-> to_numeric(p1_row.c7),
     black_alone  |-> to_numeric(p1_row.c8),
     aian_alone   |-> to_numeric(p1_row.c9),
     asian_alone  |-> to_numeric(p1_row.c10),
     nhpi_alone   |-> to_numeric(p1_row.c11),
     other_alone  |-> to_numeric(p1_row.c12),
     hispanic     |-> to_numeric(p1_row.c73),
     GEOID        |-> IF i <= Len(geo_rows) THEN geo_rows[i].c9 ELSE MissingText,
     County       |-> IF i <= Len(geo_rows) THEN Strip(geo_rows[i].c14) ELSE MissingText,
     BeforeCounty |-> IF i <= Len(geo_rows) THEN geo_rows[i].c88 ELSE MissingText,
     AfterCounty  |-> IF i <= Len(geo_rows) THEN geo_rows[i].c90 ELSE MissingText]

WithWhiteNH(r) ==
    [f \in DOMAIN r \cup {"white_nh"} |->
        IF f = "white_nh" THEN Sub(r.white_alone, r.hispanic) ELSE r[f]]

WithDominant(r) ==
    [f \in DOMAIN r \cup {"dominant_race"} |->
        IF f = "dominant_race" THEN idxmax(r) ELSE r[f]]

DemographicRow(p1_row, geo_rows, i) ==
    WithDominant(WithWhiteNH(Counts(p1_row, geo_rows, i)))

\* read_pl_data when idxmax returns: the demographics frame
read_pl_data(geo_lines, p1_lines) ==
    LET geo_df == ParsePl(geo_lines).rows
        part1_df == ParsePl(p1_lines).rows
    IN [i \in 1..Len(part1_df) |-> DemographicRow(part1_df[i], geo_df, i)]

\* What idxmax does with a row whose seven cells are all missing depends on
\* the installed pandas, which the repository does not pin: before 3.0 the
\* label is missing (with a FutureWarning), from 3.0 on ValueError is raised.
IdxmaxOutcomes(geo_lines, p1_lines) ==
    IF \E i \in 1..Len(read_pl_data(geo_lines, p1_lines)) :
           AllNA(read_pl_data(geo_lines, p1_lines)[i])
    THEN {"returns", "ValueError"}
    ELSE {"returns"}

----------------------------------------------------------------------------
(* pd.read_csv(roi_path): no dtype is given, so the type of each column is  *)
(* inferred from the whole column. A column whose every cell is an integer  *)
(* literal becomes int64 (the cell is its value, leading zeros are gone);   *)
(* otherwise the column keeps the text of the file.                         *)

InferColumn(texts) ==
    IF Len(texts) > 0 /\ \A i \in 1..Len(texts) : IsIntText(texts[i])
    THEN [dtype |-> "int64", values |-> [i \in 1..Len(texts) |-> ParseInt(texts[i])]]
    ELSE [dtype |-> "object", values |-> texts]

KeepText(texts) == [dtype |-> "object", values |-> texts]

\* the rank column: integers, an empty field is missing
RankColumn(texts) == [i \in 1..Len(texts) |-> to_numeric(texts[i])]

read_csv(file) ==
    [FIPS      |-> InferColumn([i \in 1..Len(file.rows) |-> file.rows[i].FIPS]),
     COMP_RANK |-> RankColumn([i \in 1..Len(file.rows) |-> file.rows[i].COMP_RANK])]

\* Series.astype(str)
astype_str(col) ==
    IF col.dtype = "int64"
    THEN [i \in 1..Len(col.values) |-> FormatInt(col.values[i])]
    ELSE col.values

----------------------------------------------------------------------------
(* DataFrame.merge(how='left'): for every left key in left order, the       *)
(* positions of the right rows with an equal key in right order, or one     *)
(* row with no right side (r = 0).                                          *)

RECURSIVE MatchIdx(_, _, _)
MatchIdx(key, right_keys, j) ==
    IF j > Len(right_keys) THEN <<>>
    ELSE (IF right_keys[j] = key THEN <<j>> ELSE <<>>)
         \o MatchIdx(key, right_keys, j + 1)

\* a join that drops the left rows without a match
RECURSIVE merge_inner(_, _, _)
merge_inner(left_keys, right_keys, i) ==
    IF i > Len(left_keys) THEN <<>>
    ELSE LET m == MatchIdx(left_keys[i], right_keys, 1) IN
         [n \in 1..Len(m) |-> [l |-> i, r |-> m[n]]]
         \o merge_inner(left_keys, right_keys, i + 1)

RECURSIVE merge_left(_, _, _)
merge_left(left_keys, right_keys, i) ==
    IF i > Len(left_keys) THEN <<>>
    ELSE LET m == MatchIdx(left_keys[i], right_keys, 1) IN
         (IF m = <<>> THEN <<[l |-> i, r |-> 0]>>
          ELSE [n \in 1..Len(m) |-> [l |-> i, r |-> m[n]]])
         \o merge_left(left_keys, right_keys, i + 1)

\* merge_geo_roi(roi, geo): both keys .astype(str), then the left join
merge_geo_roi(roi_df, geo) ==
    LET fips == astype_str(roi_df.FIPS)
        pairs == merge_left(geo, fips, 1)
    IN [n \in 1..Len(pairs) |->
          [GEOID     |-> geo[pairs[n].l],
           FIPS      |-> IF pairs[n].r = 0 THEN MissingText ELSE fips[pairs[n].r],
           COMP_RANK |-> IF pairs[n].r = 0 THEN NaN
                         ELSE roi_df.COMP_RANK[pairs[n].r]]]

\* the merge and the fillna('Unknown') of create_racial_map
MergeDemographics(gdf, demographics) ==
    LET keys == [j \in 1..Len(demographics) |-> demographics[j].GEOID]
        pairs == merge_left(gdf, keys, 1)
    IN [n \in 1..Len(pairs) |->
          [GEOID |-> gdf[pairs[n].l],
           right |-> IF pairs[n].r = 0 THEN None ELSE demographics[pairs[n].r],
           dominant_race |->
               IF pairs[n].r = 0 THEN "Unknown"
               ELSE IF demographics[pairs[n].r].dominant_race = NaNLabel
                    THEN "Unknown"
                    ELSE demographics[pairs[n].r].dominant_race]]

----------------------------------------------------------------------------
(* Renderers *)

DefaultFill == "#FFFFFF"

opportunity_color_scheme ==
    (1 :> "#2ecc71") @@ (2 :> "#f1c40f") @@ (3 :> "#e74c3c")

opportunity_legend_labels ==
    (1 :> "High Opportunity Area") @@ (2 :> "Medium Opportunity Area")
    @@ (3 :> "Low Opportunity Area")

\* color_scheme.get(rank, '#FFFFFF')
OpportunityFill(rank) ==
    IF rank # NaN /\ rank[1] \in DOMAIN opportunity_color_scheme
    THEN opportunity_color_scheme[rank[1]]
    ELSE DefaultFill

\* one Patch per key of the colour scheme, sorted
OpportunityLegend ==
    [k \in 1..3 |-> [key |-> <<k>>, facecolor |-> opportunity_color_scheme[k],
                     label |-> opportunity_legend_labels[k]]]

race_keys == <<"white_nh", "black_alone", "asian_alone", "hispanic",
               "aian_alone", "nhpi_alone", "other_alone", "Unknown">>

race_color_scheme ==
    [k \in {race_keys[i] : i \in 1..Len(race_keys)} |->
        CASE k = "white_nh"    -> "#FFB6C1"
          [] k = "black_alone" -> "#87CEEB"
          [] k = "asian_alone" -> "#98FB98"
          [] k = "hispanic"    -> "#DDA0DD"
          [] k = "aian_alone"  -> "#F0E68C"
          [] k = "nhpi_alone"  -> "#FFA07A"
          [] k = "other_alone" -> "#D3D3D3"
          [] k = "Unknown"     -> "#FFFFFF"]

\* one Patch per key of the colour scheme, in insertion order
RaceLegend ==
    [i \in 1..Len(race_keys) |->
        [key |-> race_keys[i], facecolor |-> race_color_scheme[race_keys[i]]]]

\* color_scheme[race] raises KeyError for a key the scheme does not have
RaceKeyError(frame) ==
    \E n \in 1..Len(frame) : frame[n].dominant_race \notin DOMAIN race_color_scheme

\* merged_gdf[merged_gdf['dominant_race'] == 'Unknown'][['GEOID', 'dominant_race']]
RECURSIVE UnknownRows(_)
UnknownRows(frame) ==
    IF frame = <<>> THEN <<>>
    ELSE (IF Head(frame).dominant_race = "Unknown"
          THEN <<[GEOID |-> Head(frame).GEOID, dominant_race |-> "Unknown"]>>
          ELSE <<>>) \o UnknownRows(Tail(frame))

\* a write that does not look at the number of Unknown rows
WriteUnmatchedAlways(csv, frame) == UnknownRows(frame)

\* if len(unmatched) > 0: unmatched[...].to_csv('unmatched_tracts.csv')
WriteUnmatched(csv, frame) ==
    IF Len(UnknownRows(frame)) > 0 THEN UnknownRows(frame) ELSE csv

----------------------------------------------------------------------------
(* Inputs *)

SeqsOf(S, lo, hi) == UNION {[1..n -> S] : n \in lo..hi}

\* bytes: "A", 0x80 (EURO SIGN in cp1252), 0x81 (undefined in cp1252), 0xE9
PlBytes == {65, 128, 129, 233}
PlPaths == {"mi2020.pl/migeo2020.pl", "mi2020.pl/mi000012020.pl"}

CountTexts == {Txt0, Txt1, Txt2, TxtX}

\* every Part 1 line over CountTexts
AllRows ==
    [c6 : {Txt2}, c7 : CountTexts, c8 : CountTexts, c9 : CountTexts,
     c10 : CountTexts, c11 : CountTexts, c12 : CountTexts, c73 : CountTexts]

\* total_pop "100", white_alone "80", black_alone "69", hispanic "10"
RowExample ==
    [c6 |-> <<49, 48, 48>>, c7 |-> <<56, 48>>, c8 |-> <<54, 57>>, c9 |-> Txt0,
     c10 |-> Txt0, c11 |-> Txt0, c12 |-> Txt0, c73 |-> Txt10]
\* every count malformed
RowMalformed ==
    [c6 |-> TxtX, c7 |-> TxtX, c8 |-> TxtX, c9 |-> TxtX,
     c10 |-> TxtX, c11 |-> TxtX, c12 |-> TxtX, c73 |-> TxtX]
\* white_nh = 0 - 1, black_alone = aian_alone = 2
RowTie ==
    [c6 |-> Txt4, c7 |-> Txt0, c8 |-> Txt2, c9 |-> Txt2,
     c10 |-> Txt0, c11 |-> Txt0, c12 |-> Txt0, c73 |-> Txt1]
RowSamples == {RowExample, RowMalformed, RowTie}

\* GEOID "01", county "W " (trailing blank) / GEOID "11", county "T"
GeoLineA == [c9 |-> Txt01, c14 |-> <<87, 32>>, c88 |-> Txt1, c90 |-> Txt2]
GeoLineB == [c9 |-> Txt11, c14 |-> <<84>>, c88 |-> Txt2, c90 |-> Txt1]
GeoLineSamples == {GeoLineA, GeoLineB}

\* tract GEOIDs are unique within a county
TractLists == {<<Txt01>>, <<Txt01, Txt10>>, <<Txt10, Txt01>>}
TravisTractLists == {<<Txt01>>, <<Txt10>>}

TxGeoFiles == {<<GeoLineB, GeoLineA>>}
TxP1Files == {<<RowTie, RowExample>>, <<RowTie, RowMalformed>>}

FipsTexts == {Txt01, Txt10, TxtX1}
RankTexts == {Txt1, Txt3, Txt4, TxtEmpty}
RoiLines == [FIPS : FipsTexts, COMP_RANK : RankTexts]
RoiHeader == <<"FIPS", "COMP_RANK">>

----------------------------------------------------------------------------
(* Initial states *)

Idle ==
    /\ err = NoError
    /\ read_result = None
    /\ roi = None
    /\ demo_mi = None
    /\ demo_tx = None
    /\ merged = None
    /\ fills = None
    /\ legend = None
    /\ open_canvases = 0
    /\ unmatched_csv = NoFile
    /\ calls = <<>>

NoReaderInput == file_path = None /\ file_bytes = None
NoRoiInput == roi_file = None
NoPlInput == geo_file = None /\ part1_file = None

InitReader ==
    /\ script = "reader" /\ pc = "read" /\ Idle
    /\ file_path \in PlPaths
    /\ file_bytes \in SeqsOf(PlBytes, 0, MaxFileLen)
    /\ NoRoiInput /\ NoPlInput
    /\ wayne_tracts = None /\ travis_tracts = None

InitExtract ==
    /\ script = "extract" /\ pc = "read_mi" /\ Idle
    /\ NoReaderInput /\ NoRoiInput
    /\ \/ /\ geo_file = <<GeoLineB, GeoLineA>>
          /\ part1_file \in {<<RowExample, r>> : r \in AllRows}
       \/ /\ geo_file \in SeqsOf(GeoLineSamples, 1, MaxLines)
          /\ part1_file \in SeqsOf(RowSamples, 1, MaxLines)
    /\ wayne_tracts = None /\ travis_tracts = None

InitOpportunity ==
    /\ script = "opportunity" /\ pc = "read_roi" /\ Idle
    /\ NoReaderInput /\ NoPlInput
    /\ roi_file \in [header : {RoiHeader}, rows : SeqsOf(RoiLines, 0, MaxRoiRows)]
    /\ wayne_tracts \in TractLists
    /\ travis_tracts = None

InitRaceDemo ==
    /\ script = "race_demo" /\ pc = "read_mi" /\ Idle
    /\ NoReaderInput /\ NoRoiInput
    /\ geo_file \in SeqsOf(GeoLineSamples, 1, MaxLines)
    /\ part1_file \in SeqsOf(RowSamples, 1, MaxLines)
    /\ wayne_tracts \in TractLists
    /\ travis_tracts \in TravisTractLists

Init == InitOpportunity \/ InitRaceDemo

----------------------------------------------------------------------------
(* Actions *)

\* read_pl_file(file_path): the decoding of the file
ReadPlFile ==
    /\ script = "reader" /\ pc = "read"
    /\ read_result' = read_pl_file(file_path, file_bytes)
    /\ pc' = IF read_result'.kind = "table" THEN "returned" ELSE "raised"
    /\ err' = IF read_result'.kind = "table" THEN NoError ELSE "ValueError"
    /\ UNCHANGED <<script, file_path, file_bytes, roi_file, roi, geo_file,
                   part1_file, demo_mi, demo_tx, wayne_tracts, travis_tracts,
                   merged, fills, legend, open_canvases, unmatched_csv, calls>>

\* demo_mi = read_pl_data('mi2020.pl/migeo2020.pl', 'mi2020.pl/mi000012020.pl')
ReadPlDataMI ==
    /\ script \in {"extract", "race_demo"} /\ pc = "read_mi"
    /\ \E outcome \in IdxmaxOutcomes(geo_file, part1_file) :
          IF outcome = "ValueError"
          THEN /\ pc' = "crashed"
               /\ err' = "ValueError"
               /\ UNCHANGED demo_mi
          ELSE /\ pc' = "read_tx"
               /\ demo_mi' = read_pl_data(geo_file, part1_file)
               /\ UNCHANGED err
    /\ UNCHANGED <<script, file_path, file_bytes, read_result, roi_file, roi,
                   geo_file, part1_file, demo_tx, wayne_tracts, travis_tracts,
                   merged, fills, legend, open_canvases, unmatched_csv, calls>>

\* demo_tx = read_pl_data('tx2020.pl/txgeo2020.pl', 'tx2020.pl/tx000012020.pl')
ReadPlDataTX ==
    /\ script = "race_demo" /\ pc = "read_tx"
    /\ \E g \in TxGeoFiles, p \in TxP1Files :
       \E outcome \in IdxmaxOutcomes(g, p) :
          IF outcome = "ValueError"
          THEN /\ pc' = "crashed"
               /\ err' = "ValueError"
               /\ UNCHANGED demo_tx
          ELSE /\ pc' = "map_wayne"
               /\ demo_tx' = read_pl_data(g, p)
               /\ UNCHANGED err
    /\ UNCHANGED <<script, file_path, file_bytes, read_result, roi_file, roi,
                   geo_file, part1_file, demo_mi, wayne_tracts, travis_tracts,
                   merged, fills, legend, open_canvases, unmatched_csv, calls>>

\* create_racial_map(gdf, demographics, output_path, county_name).
\* plt.subplots opens the figure; the colour lookup, the legend and savefig
\* follow; plt.close() is the statement after savefig, outside any
\* try/finally, so an exception before it leaves the figure open.
\* save_ok: whether plt.savefig(output_path) succeeds.
create_racial_map(gdf, demographics, next_pc) ==
    /\ merged' = MergeDemographics(gdf, demographics)
    /\ IF RaceKeyError(merged')
       THEN /\ open_canvases' = open_canvases + 1
            /\ pc' = "crashed"
            /\ err' = "KeyError"
            /\ UNCHANGED <<fills, legend, unmatched_csv, calls>>
       ELSE /\ fills' = [n \in 1..Len(merged') |->
                            race_color_scheme[merged'[n].dominant_race]]
            /\ legend' = RaceLegend
            /\ \E save_ok \in BOOLEAN :
                  IF save_ok
                  THEN /\ open_canvases' = open_canvases
                       /\ unmatched_csv' = WriteUnmatched(unmatched_csv, merged')
                       /\ calls' = Append(calls, merged')
                       /\ pc' = next_pc
                       /\ UNCHANGED err
                  ELSE /\ open_canvases' = open_canvases + 1
                       /\ pc' = "crashed"
                       /\ err' = "OSError"
                       /\ UNCHANGED <<unmatched_csv, calls>>
    /\ UNCHANGED <<script, file_path, file_bytes, read_result, roi_file, roi,
                   geo_file, part1_file, demo_mi, demo_tx, wayne_tracts,
                   travis_tracts>>

\* create_racial_map(wayne_tracts, demo_mi, 'output/ouwayne_map.png', 'Wayne')
MapWayne ==
    /\ script = "race_demo" /\ pc = "map_wayne"
    /\ create_racial_map(wayne_tracts, demo_mi, "map_travis")

\* create_racial_map(travis_tracts, demo_tx, 'output/travis_map.png', 'Travis')
MapTravis ==
    /\ script = "race_demo" /\ pc = "map_travis"
    /\ create_racial_map(travis_tracts, demo_tx, "done")

\* roi_detroit = pd.read_csv('data/roi/detroit_roi.csv')
ReadRoiCsv ==
    /\ script = "opportunity" /\ pc = "read_roi"
    /\ roi' = read_csv(roi_file)
    /\ pc' = "merge"
    /\ UNCHANGED <<script, err, file_path, file_bytes, read_result, roi_file,
                   geo_file, part1_file, demo_mi, demo_tx, wayne_tracts,
                   travis_tracts, merged, fills, legend, open_canvases,
                   unmatched_csv, calls>>

\* merged_detroit = merge_geo_roi(roi_detroit, wayne_tracts); the key column
\* of roi is converted in place
MergeGeoRoi ==
    /\ script = "opportunity" /\ pc = "merge"
    /\ merged' = merge_geo_roi(roi, wayne_tracts)
    /\ roi' = [roi EXCEPT !.FIPS = KeepText(astype_str(roi.FIPS))]
    /\ pc' = "map"
    /\ UNCHANGED <<script, err, file_path, file_bytes, read_result, roi_file,
                   geo_file, part1_file, demo_mi, demo_tx, wayne_tracts,
                   travis_tracts, fills, legend, open_canvases, unmatched_csv,
                   calls>>

\* create_opportunity_map(merged_detroit, 'Detroit', 'output/detroit_opportunity.png')
\* save_ok: whether plt.savefig(output_path) succeeds; plt.close() follows it
\* outside any try/finally.
CreateOpportunityMap ==
    /\ script = "opportunity" /\ pc = "map"
    /\ fills' = [n \in 1..Len(merged) |-> OpportunityFill(merged[n].COMP_RANK)]
    /\ legend' = OpportunityLegend
    /\ \E save_ok \in BOOLEAN :
          IF save_ok
          THEN /\ open_canvases' = open_canvases
               /\ pc' = "done"
               /\ UNCHANGED err
          ELSE /\ open_canvases' = open_canvases + 1
               /\ pc' = "crashed"
               /\ err' = "OSError"
    /\ UNCHANGED <<script, file_path, file_bytes, read_result, roi_file, roi,
                   geo_file, part1_file, demo_mi, demo_tx, wayne_tracts,
                   travis_tracts, merged, unmatched_csv, calls>>

Next ==
    \/ ReadRoiCsv
    \/ MergeGeoRoi
    \/ CreateOpportunityMap
    \/ ReadPlDataMI
    \/ ReadPlDataTX
    \/ MapWayne
    \/ MapTravis

Spec == Init /\ [][Next]_vars

SpecReader == InitReader /\ [][ReadPlFile]_vars

SpecExtract == InitExtract /\ [][ReadPlDataMI]_vars

----------------------------------------------------------------------------
(* Properties *)

Max(a, b) == IF a > b THEN a ELSE b

\* the rows of a merged frame that belong to tract g, in frame order
RowsOf(frame, g) == SelectSeq(frame, LAMBDA r : r.GEOID = g)

\* how many right-hand keys equal g
MatchCount(keys, g) == Cardinality({j \in 1..Len(keys) : keys[j] = g})

\* the position of the n-th right-hand key equal to g
NthMatch(keys, g, n) ==
    CHOOSE j \in 1..Len(keys) :
        keys[j] = g /\ Cardinality({j2 \in 1..j : keys[j2] = g}) = n

SumOver(left, keys) ==
    LET RECURSIVE S(_)
        S(i) == IF i = 0 THEN 0 ELSE S(i - 1) + Max(1, MatchCount(keys, left[i]))
    IN S(Len(left))

\* frame is the left outer join of the tracts with the ROI rows
OpportunityLeftJoin(frame, left, keys, ranks) ==
    /\ Len(frame) = SumOver(left, keys)
    /\ \A i \in 1..Len(left) :
          LET g == left[i]
              k == MatchCount(keys, g)
              rows == RowsOf(frame, g)
          IN /\ Len(rows) = Max(1, k)
             /\ k = 0 => rows[1].COMP_RANK = NaN /\ rows[1].FIPS = MissingText
             /\ \A n \in 1..k :
                   /\ rows[n].FIPS = g
                   /\ rows[n].COMP_RANK = ranks[NthMatch(keys, g, n)]

\* frame is the left outer join of the tracts with the demographic rows,
\* a missing dominant_race replaced by 'Unknown'
RaceLeftJoin(frame, left, demographics) ==
    LET keys == [j \in 1..Len(demographics) |-> demographics[j].GEOID] IN
    /\ Len(frame) = SumOver(left, keys)
    /\ \A i \in 1..Len(left) :
          LET g == left[i]
              k == MatchCount(keys, g)
              rows == RowsOf(frame, g)
          IN /\ Len(rows) = Max(1, k)
             /\ k = 0 => rows[1].dominant_race = "Unknown" /\ rows[1].right = None
             /\ \A n \in 1..k :
                   LET d == demographics[NthMatch(keys, g, n)] IN
                   /\ rows[n].right = d
                   /\ rows[n].dominant_race =
                         (IF d.dominant_race = NaNLabel THEN "Unknown"
                          ELSE d.dominant_race)

\* C1: both merges are left outer joins on the identifier: a tract with k
\* right-hand rows of equal key has exactly max(1, k) rows in the output; with
\* k = 0 its single row has the missing category (missing COMP_RANK, 'Unknown'
\* dominant_race), with k >= 1 its rows carry the fields of the matching rows.
C1_LeftOuterJoin ==
    /\ (script = "opportunity" /\ pc \in {"map", "done", "crashed"}) =>
          OpportunityLeftJoin(merged, wayne_tracts, roi.FIPS.values, roi.COMP_RANK)
    /\ (script = "race_demo" /\ Len(calls) >= 1) =>
          RaceLeftJoin(calls[1], wayne_tracts, demo_mi)
    /\ (script = "race_demo" /\ Len(calls) >= 2) =>
          RaceLeftJoin(calls[2], travis_tracts, demo_tx)

\* a merged opportunity frame with an unmatched tract (one row, missing rank)
\* and a tract matched by two ROI rows (two rows)
C1_Witness ==
    /\ script = "opportunity" /\ pc = "done"
    /\ \E i \in 1..Len(wayne_tracts) :
          /\ MatchCount(roi.FIPS.values, wayne_tracts[i]) = 0
          /\ Len(RowsOf(merged, wayne_tracts[i])) = 1
    /\ \E i \in 1..Len(wayne_tracts) :
          /\ MatchCount(roi.FIPS.values, wayne_tracts[i]) = 2
          /\ Len(RowsOf(merged, wayne_tracts[i])) = 2

\* C2: when the join compares keys, the right-hand key of every row is the
\* text of the identifier as written in the input file, leading zeros
\* included, and the key column is string-typed (ROI FIPS, demographic GEOID).
C2_KeysKeepSourceText ==
    /\ (script = "opportunity" /\ pc \in {"map", "done", "crashed"}) =>
          /\ roi.FIPS.dtype = "object"
          /\ \A n \in 1..Len(roi_file.rows) :
                roi.FIPS.values[n] = roi_file.rows[n].FIPS
    /\ (script = "race_demo" /\ pc \in {"read_tx", "map_wayne", "map_travis", "done"}) =>
          \A i \in 1..Len(demo_mi) :
              demo_mi[i].GEOID # MissingText =>
                  \E n \in 1..Len(geo_file) : demo_mi[i].GEOID = geo_file[n].c9

\* C3: read_pl_file returns the decode of the first of latin1, iso-8859-1,
\* cp1252 (in that order) that decodes the file, whole; if none decodes it it
\* raises ValueError naming the file and returns no table.
C3_FirstDecodingEncoding ==
    (script = "reader" /\ pc # "read") =>
        IF CanDecode("latin1", file_bytes)
        THEN /\ read_result.kind = "table"
             /\ read_result.encoding = "latin1"
             /\ read_result.text = Decode("latin1", file_bytes)
             /\ Len(read_result.text) = Len(file_bytes)
        ELSE IF CanDecode("iso-8859-1", file_bytes)
        THEN /\ read_result.kind = "table"
             /\ read_result.encoding = "iso-8859-1"
             /\ read_result.text = Decode("iso-8859-1", file_bytes)
             /\ Len(read_result.text) = Len(file_bytes)
        ELSE IF CanDecode("cp1252", file_bytes)
        THEN /\ read_result.kind = "table"
             /\ read_result.encoding = "cp1252"
             /\ read_result.text = Decode("cp1252", file_bytes)
             /\ Len(read_result.text) = Len(file_bytes)
        ELSE /\ read_result.kind = "ValueError"
             /\ read_result.file = file_path
             /\ read_result.text = None
             /\ pc = "raised"

\* a returned read of a file holding a byte the third candidate rejects
C3_Witness ==
    /\ script = "reader" /\ pc = "returned"
    /\ \E i \in 1..Len(file_bytes) : file_bytes[i] = 129
    /\ read_result.encoding = "latin1"

\* the file is text in cp1252 that the earlier candidates read differently
Cp1252Only(bytes) ==
    /\ CanDecode("cp1252", bytes)
    /\ Decode("cp1252", bytes) # Decode("latin1", bytes)

\* C4: for a file that is cp1252 text only, read_pl_file succeeds and returns
\* the text the file encodes under cp1252.
C4_ThirdEncodingText ==
    (script = "reader" /\ pc # "read" /\ Cp1252Only(file_bytes)) =>
        /\ read_result.kind = "table"
        /\ read_result.text = Decode("cp1252", file_bytes)

\* demo_mi holds the frame read_pl_data returned
DemoMiReturned ==
    /\ script \in {"extract", "race_demo"}
    /\ pc \in {"read_tx", "map_wayne", "map_travis", "done"}

CategoryCols == {race_cols[k] : k \in 1..Len(race_cols)}

ColIndex(c) == CHOOSE k \in 1..Len(race_cols) : race_cols[k] = c

\* d is the first column, in race_cols order, holding the greatest of the
\* non-missing category counts of row r
FirstMaxColumn(r, d) ==
    /\ d \in CategoryCols
    /\ r[d] # NaN
    /\ \A c \in CategoryCols : r[c] # NaN => r[c][1] <= r[d][1]
    /\ \A c \in CategoryCols :
          (r[c] # NaN /\ ColIndex(c) < ColIndex(d)) => r[c][1] < r[d][1]

WhiteNHUnclamped(r) ==
    r.white_nh = (IF r.white_alone = NaN \/ r.hispanic = NaN THEN NaN
                  ELSE <<r.white_alone[1] - r.hispanic[1]>>)

\* C5 (as stated): for every row read_pl_data produces, dominant_race names
\* the first column in race_cols order whose value is the row's maximum, with
\* white_nh = white_alone - hispanic unclamped; a row with white_alone 80 and
\* hispanic 10 and the rest below 70 is white_nh.
C5_DominantEveryRow ==
    DemoMiReturned =>
        \A i \in 1..Len(demo_mi) :
            /\ WhiteNHUnclamped(demo_mi[i])
            /\ FirstMaxColumn(demo_mi[i], demo_mi[i].dominant_race)

\* C5 (amended): the same for every row with at least one non-missing
\* category count, the maximum taken over the non-missing counts; a row whose
\* seven category counts are all missing has a missing dominant_race.
C5_DominantRace ==
    DemoMiReturned =>
        \A i \in 1..Len(demo_mi) :
            LET r == demo_mi[i] IN
            /\ WhiteNHUnclamped(r)
            /\ IF \A c \in CategoryCols : r[c] = NaN
               THEN r.dominant_race = NaNLabel
               ELSE FirstMaxColumn(r, r.dominant_race)
            /\ part1_file[i + 1] = RowExample =>
                  r.white_nh = <<70>> /\ r.dominant_race = "white_nh"

\* a returned frame with a row tied at the maximum whose earlier column won,
\* and white_nh below zero in that row
C5_Witness ==
    /\ DemoMiReturned
    /\ \E i \in 1..Len(demo_mi) :
          /\ demo_mi[i].dominant_race = "black_alone"
          /\ demo_mi[i].aian_alone = demo_mi[i].black_alone
          /\ demo_mi[i].white_nh = <<-1>>

\* the category column of the latest merged frame
Category(row) ==
    IF script = "opportunity" THEN row.COMP_RANK ELSE row.dominant_race

InColourMapping(c) ==
    IF script = "opportunity"
    THEN c # NaN /\ c[1] \in DOMAIN opportunity_color_scheme
    ELSE c \in DOMAIN race_color_scheme

\* C6: after either renderer, every category value present in the merged
\* frame (the missing one included) has a legend Patch with the colour the
\* rows of that category are drawn in; a category outside the colour mapping
\* is drawn in the default fill and the render raises no lookup error.
C6_LegendCoversCategories ==
    /\ err # "KeyError"
    /\ (script \in {"opportunity", "race_demo"} /\ pc = "done") =>
          \A n \in 1..Len(merged) :
              /\ \E m \in 1..Len(legend) :
                    /\ legend[m].key = Category(merged[n])
                    /\ legend[m].facecolor = fills[n]
              /\ ~InColourMapping(Category(merged[n])) => fills[n] = DefaultFill

\* C7: a malformed count never ends read_pl_data or the merge-and-render step
\* with an error: every such cell becomes the missing value and a record is
\* produced for the row, also when all seven category counts are missing.
C7_MalformedNeverRaises ==
    /\ err \notin {"ValueError", "KeyError"}
    /\ DemoMiReturned =>
          /\ Len(demo_mi) = Len(part1_file) - 1
          /\ \A i \in 1..Len(demo_mi) :
                ~IsIntText(part1_file[i + 1].c7) => demo_mi[i].white_alone = NaN

\* C8: no run ends with a figure opened by plt.subplots left unclosed,
\* whether the renderer returned or a step after plt.subplots raised.
C8_CanvasReleased ==
    pc \in {"done", "crashed"} => open_canvases = 0

\* C9: read_pl_data returns one record per line of the Part 1 file, record i
\* taking its counts from line i of the Part 1 file and its identifiers from
\* line i of the geographic header file (missing where that file is shorter).
C9_OneRecordPerLine ==
    DemoMiReturned =>
        /\ Len(demo_mi) = Len(part1_file)
        /\ \A i \in 1..Len(demo_mi) :
              /\ demo_mi[i].white_alone = to_numeric(part1_file[i].c7)
              /\ demo_mi[i].hispanic = to_numeric(part1_file[i].c73)
              /\ demo_mi[i].GEOID =
                    (IF i <= Len(geo_file) THEN geo_file[i].c9 ELSE MissingText)

\* the calls, among the first n recorded, whose merged frame has an Unknown row
CallsWithUnknown ==
    {n \in 1..Len(calls) :
        \E m \in 1..Len(calls[n]) : calls[n][m].dominant_race = "Unknown"}

\* the GEOID / dominant_race columns of the Unknown rows of a merged frame
UnknownOf(frame) ==
    LET u == SelectSeq(frame, LAMBDA r : r.dominant_race = "Unknown") IN
    [m \in 1..Len(u) |-> [GEOID |-> u[m].GEOID, dominant_race |-> "Unknown"]]

\* C10: unmatched_tracts.csv always holds the Unknown rows (GEOID,
\* dominant_race) of the last create_racial_map call whose merged frame had
\* any, untouched by later calls without Unknown rows, and does not exist if
\* no call had one.
C10_SideFileOfLastUnknownCall ==
    script = "race_demo" =>
        IF CallsWithUnknown = {}
        THEN unmatched_csv = NoFile
        ELSE LET last == CHOOSE n \in CallsWithUnknown :
                             \A n2 \in CallsWithUnknown : n2 <= n
             IN unmatched_csv = UnknownOf(calls[last])

\* both calls made: Wayne had Unknown rows, Travis had none, and the side
\* file still holds Wayne's rows
C10_Witness ==
    /\ script = "race_demo" /\ pc = "done"
    /\ CallsWithUnknown = {1}
    /\ Len(calls[2]) > 0
    /\ unmatched_csv = UnknownOf(calls[1])

====
